---- MODULE Spec2Model ----
(***************************************************************************)
(* Model of the Web Research Agent: settings, the tool registry, the       *)
(* search adapters, the bounded ReAct loop of ResearchAgent.research /     *)
(* research_async and the AG-UI event stream generators.                   *)
(*                                                                         *)
(* Strings whose characters matter (API keys, report texts) are sequences  *)
(* of one-character strings.  Formatted texts (prompts, tool outputs,      *)
(* error messages) are records holding the template and the values that    *)
(* the code interpolates into it.                                          *)
(***************************************************************************)
EXTENDS Integers, Sequences, FiniteSets, TLC

(***************************************************************************)
(* Bounds of the model                                                     *)
(***************************************************************************)
\* largest configured max_iterations / constructor override
MaxIter == 2
\* largest configured search_max_results (the cap)
MaxCap == 2
\* largest number of results a backend answers with
MaxBackend == 3
\* report lengths reach MaxChunks * chunk_size + 1 characters
MaxChunks == 2

\* messages in the body of an /agui or /copilotkit request
MaxMsgs == 2

(***************************************************************************)
(* Settings (src/config.py)                                                *)
(***************************************************************************)
\* Optional[str]: None, or a string given by its characters
NoKey == [present |-> FALSE, chars |-> <<>>]

Key(s) == [present |-> TRUE, chars |-> s]

StartsWith(s, p) == Len(s) >= Len(p) /\ SubSeq(s, 1, Len(p)) = p

TavilyPrefix == <<"t", "v", "l", "y", "-">>

SerpapiMinLen == 10

\* Settings.has_tavily
has_tavily(st) ==
    /\ st.tavily_api_key.present
    /\ Len(st.tavily_api_key.chars) > 0
    /\ StartsWith(st.tavily_api_key.chars, TavilyPrefix)

\* Settings.has_serpapi
has_serpapi(st) ==
    /\ st.serpapi_api_key.present
    /\ Len(st.serpapi_api_key.chars) > 0
    /\ Len(st.serpapi_api_key.chars) > SerpapiMinLen

Repeat(c, n) == [i \in 1..n |-> c]

TavilyKeys == {NoKey, Key(TavilyPrefix \o <<"k">>), Key(<<"k", "e", "y">>)}

SerpapiKeys == {NoKey, Key(Repeat("s", SerpapiMinLen)), Key(Repeat("s", SerpapiMinLen + 1))}

\* the settings the process can run with (Field bounds ge=1 of config.py)
SettingsSet ==
    [tavily_api_key : TavilyKeys,
     serpapi_api_key : SerpapiKeys,
     max_iterations : 1..MaxIter,
     search_max_results : 1..MaxCap]

(***************************************************************************)
(* Tool registry (src/tools/registry.py)                                   *)
(***************************************************************************)
TOOL_REGISTRY ==
    {"tavily_search", "tavily_search_news", "serpapi_search",
     "serpapi_search_news", "web_search_ddg"}

TavilyTools == <<"tavily_search", "tavily_search_news">>

SerpapiTools == <<"serpapi_search", "serpapi_search_news">>

get_available_tools_ddg_first(st) ==
    <<"web_search_ddg">>
        \o (IF has_tavily(st) THEN TavilyTools ELSE <<>>)
        \o (IF has_serpapi(st) THEN SerpapiTools ELSE <<>>)

get_available_tools_no_fallback(st) ==
    LET t == (IF has_tavily(st) THEN TavilyTools ELSE <<>>)
                 \o (IF has_serpapi(st) THEN SerpapiTools ELSE <<>>)
    IN  IF t = <<>> THEN <<>> ELSE t \o <<"web_search_ddg">>

get_available_tools(st) ==
    (IF has_tavily(st) THEN TavilyTools ELSE <<>>)
        \o (IF has_serpapi(st) THEN SerpapiTools ELSE <<>>)
        \o <<"web_search_ddg">>

(***************************************************************************)
(* Search adapters (src/tools/*.py)                                        *)
(*                                                                         *)
(* A backend answer b is [kind, n]: "not_installed" (the import fails),    *)
(* "raises" (the request raises) or "results" with n results.  A returned  *)
(* text is the record of its template (kind), the provider, the query it   *)
(* names, the number of formatted entries and the tools it suggests.       *)
(***************************************************************************)
Min(a, b) == IF a <= b THEN a ELSE b

\* what the backend of a tool does when asked; "silent" is a backend that
\* never answers the request
Backends ==
    {[kind |-> "not_installed", n |-> 0], [kind |-> "raises", n |-> 0],
     [kind |-> "silent", n |-> 0]}
        \cup {[kind |-> "results", n |-> n] : n \in 0..MaxBackend}

Text(kind, provider, q, entries, suggests) ==
    [kind |-> kind, provider |-> provider, query |-> q,
     entries |-> entries, suggests |-> suggests]

\* max_results = min(max_results, settings.search_max_results)
Clamp(st, max_results) == Min(max_results, st.search_max_results)

\* the formatted_results of an adapter that formats every result it gets
FormatAll(results, k) == results

\* the formatted_results of an adapter that formats results[:max_results]
FormatSlice(results, k) == Min(results, IF k >= 0 THEN k ELSE 0)

\* an exception leaving a try body or an adapter: exc is its type
Raise(exc) == Text("raised", exc, "", 0, {})

\* what a try body did: the text it returned or the exception it raised,
\* and how many requests it sent to the search backend
Did(out, calls) == [out |-> out, calls |-> calls]

\* _get_tavily_client, then the try body of tavily_search
tavily_try(st, q, k, b) ==
    IF ~has_tavily(st) \/ b.kind = "not_installed"
      THEN Did(Raise("SearchProviderUnavailableError"), 0)
    ELSE IF b.kind = "raises" THEN Did(Raise("Exception"), 1)
    ELSE IF b.n = 0 THEN Did(Text("no_results", "Tavily", q, 0, {}), 1)
    ELSE Did(Text("results", "Tavily", q, FormatAll(b.n, k), {}), 1)

tavily_except_narrow(out) ==
    IF out.kind = "raised" /\ out.provider = "SearchProviderUnavailableError"
      THEN Text("not_configured", "Tavily", "", 0, {"serpapi_search", "web_search_ddg"})
      ELSE out

\* the except clauses of tavily_search
tavily_except(out) ==
    IF out.kind # "raised" THEN out
    ELSE IF out.provider = "SearchProviderUnavailableError"
      THEN Text("not_configured", "Tavily", "", 0, {"serpapi_search", "web_search_ddg"})
    ELSE Text("error", "Tavily", "", 0, {"serpapi_search", "web_search_ddg"})

tavily_search(st, q, max_results, b) ==
    tavily_except(tavily_try(st, q, Clamp(st, max_results), b).out)

\* the try body of tavily_search_news
tavily_news_try(st, q, k, b) ==
    IF ~has_tavily(st) \/ b.kind = "not_installed"
      THEN Did(Raise("SearchProviderUnavailableError"), 0)
    ELSE IF b.kind = "raises" THEN Did(Raise("Exception"), 1)
    ELSE IF b.n = 0 THEN Did(Text("no_news", "Tavily News", q, 0, {}), 1)
    ELSE Did(Text("results", "Tavily News", q, FormatAll(b.n, k), {}), 1)

\* the except clauses of tavily_search_news
tavily_news_except(out) ==
    IF out.kind # "raised" THEN out
    ELSE IF out.provider = "SearchProviderUnavailableError"
      THEN Text("not_configured", "Tavily News", "", 0, {})
    ELSE Text("error", "Tavily News", "", 0, {})

tavily_search_news(st, q, max_results, b) ==
    tavily_news_except(tavily_news_try(st, q, Clamp(st, max_results), b).out)

serpapi_try_no_empty_check(st, q, k, b) ==
    IF b.kind = "not_installed" THEN Did(Raise("ImportError"), 0)
    ELSE IF ~has_serpapi(st) THEN Did(Raise("SearchProviderUnavailableError"), 0)
    ELSE IF b.kind = "raises" THEN Did(Raise("Exception"), 1)
    ELSE Did(Text("results", "SerpAPI", q, FormatSlice(b.n, k), {}), 1)

\* the try body of serpapi_search, _get_serpapi_params included
serpapi_try(st, q, k, b) ==
    IF b.kind = "not_installed" THEN Did(Raise("ImportError"), 0)
    ELSE IF ~has_serpapi(st) THEN Did(Raise("SearchProviderUnavailableError"), 0)
    ELSE IF b.kind = "raises" THEN Did(Raise("Exception"), 1)
    ELSE IF b.n = 0 THEN Did(Text("no_results", "SerpAPI", q, 0, {}), 1)
    ELSE Did(Text("results", "SerpAPI", q, FormatSlice(b.n, k), {}), 1)

\* the except clauses of serpapi_search
serpapi_except(out) ==
    IF out.kind # "raised" THEN out
    ELSE IF out.provider = "ImportError"
      THEN Text("not_installed", "SerpAPI", "", 0, {})
    ELSE IF out.provider = "SearchProviderUnavailableError"
      THEN Text("not_configured", "SerpAPI", "", 0, {"tavily_search", "web_search_ddg"})
    ELSE Text("error", "SerpAPI", "", 0, {"tavily_search", "web_search_ddg"})

serpapi_search(st, q, max_results, b) ==
    serpapi_except(serpapi_try(st, q, Clamp(st, max_results), b).out)

\* the try body of serpapi_search_news
serpapi_news_try(st, q, k, b) ==
    IF b.kind = "not_installed" THEN Did(Raise("ImportError"), 0)
    ELSE IF ~has_serpapi(st) THEN Did(Raise("SearchProviderUnavailableError"), 0)
    ELSE IF b.kind = "raises" THEN Did(Raise("Exception"), 1)
    ELSE IF b.n = 0 THEN Did(Text("no_news", "SerpAPI News", q, 0, {}), 1)
    ELSE Did(Text("results", "SerpAPI News", q, FormatSlice(b.n, k), {}), 1)

\* the except clauses of serpapi_search_news
serpapi_news_except(out) ==
    IF out.kind # "raised" THEN out
    ELSE IF out.provider = "ImportError"
      THEN Text("not_installed", "SerpAPI News", "", 0, {})
    ELSE IF out.provider = "SearchProviderUnavailableError"
      THEN Text("not_configured", "SerpAPI News", "", 0, {})
    ELSE Text("error", "SerpAPI News", "", 0, {})

serpapi_search_news(st, q, max_results, b) ==
    serpapi_news_except(serpapi_news_try(st, q, Clamp(st, max_results), b).out)

\* _get_ddgs_client, then the try body of web_search_ddg
ddg_try(st, q, k, b) ==
    IF b.kind = "not_installed" THEN Did(Raise("ImportError"), 0)
    ELSE IF b.kind = "raises" THEN Did(Raise("Exception"), 1)
    ELSE IF b.n = 0 THEN Did(Text("no_results", "DuckDuckGo", q, 0, {}), 1)
    ELSE Did(Text("results", "DuckDuckGo", q, FormatAll(b.n, k), {}), 1)

\* the except clauses of web_search_ddg
ddg_except(out) ==
    IF out.kind # "raised" THEN out
    ELSE IF out.provider = "ImportError"
      THEN Text("not_installed", "DuckDuckGo", "", 0, {})
    ELSE Text("error", "DuckDuckGo", "", 0, {"tavily_search", "serpapi_search"})

web_search_ddg(st, q, max_results, b) ==
    ddg_except(ddg_try(st, q, Clamp(st, max_results), b).out)

\* the requests the tool function registered under name sends to its backend
BackendCalls(name, st, q, max_results, b) ==
    LET k == Clamp(st, max_results)
    IN  CASE name = "tavily_search" -> tavily_try(st, q, k, b).calls
          [] name = "tavily_search_news" -> tavily_news_try(st, q, k, b).calls
          [] name = "serpapi_search" -> serpapi_try(st, q, k, b).calls
          [] name = "serpapi_search_news" -> serpapi_news_try(st, q, k, b).calls
          [] name = "web_search_ddg" -> ddg_try(st, q, k, b).calls

\* calling the tool function registered under name
CallTool(name, st, q, max_results, b) ==
    CASE name = "tavily_search" -> tavily_search(st, q, max_results, b)
      [] name = "tavily_search_news" -> tavily_search_news(st, q, max_results, b)
      [] name = "serpapi_search" -> serpapi_search(st, q, max_results, b)
      [] name = "serpapi_search_news" -> serpapi_search_news(st, q, max_results, b)
      [] name = "web_search_ddg" -> web_search_ddg(st, q, max_results, b)

(***************************************************************************)
(* Values of the run                                                       *)
(***************************************************************************)
\* Optional[int]: None, or an integer
NoInt == [present |-> FALSE, val |-> 0]

Int1(n) == [present |-> TRUE, val |-> n]

\* the max_iterations argument of ResearchAgent(...) / create_agent(...)
Overrides == {NoInt} \cup {Int1(n) : n \in 0..MaxIter}

\* --max-iterations is parsed with type=int and no range: an argument above
\* the largest value Settings.max_iterations accepts
OverridesAbove == {Int1(MaxIter + 1)}

\* settings of the runs of the loop: each key absent/invalid or valid
RunSettings ==
    {st \in SettingsSet :
        /\ st.tavily_api_key \in {Key(<<"k", "e", "y">>), Key(TavilyPrefix \o <<"k">>)}
        /\ st.serpapi_api_key \in {NoKey, Key(Repeat("s", SerpapiMinLen + 1))}}

\* settings of the runs whose agent is given an argument of OverridesAbove
OverrideSettings ==
    {st \in RunSettings :
        /\ ~has_tavily(st) /\ ~has_serpapi(st)
        /\ st.max_iterations = 1 /\ st.search_max_results = 1}

Queries == {"What is the capital of France?"}

SearchQueries == {"capital of France"}

Dates == {"November 04, 2026"}

UUIDs == {"uuid-1", "uuid-2"}

\* chunk_size of agui_stream_generator / agui_stream_sync
chunk_size == 50

Letters == <<"a", "b", "c">>

\* a report of n characters, and a whitespace-only answer of n characters
Report(n) == [i \in 1..n |-> Letters[((i - 1) % 3) + 1]]

Blank(n) == [i \in 1..n |-> " "]

ReportLens ==
    {n \in 0..(MaxChunks * chunk_size + 1) :
        \E k \in 0..MaxChunks : n \in {k * chunk_size - 1, k * chunk_size, k * chunk_size + 1}}

\* the terminal answers the oracle may give
Answers == {Report(n) : n \in ReportLens} \cup {Blank(n) : n \in 1..2}

\* the tool names the oracle may request
OracleToolNames == TOOL_REGISTRY \cup {"calculator"}

\* the max_results the oracle may pass: below, at and above every cap
OracleMaxResults == {1, MaxCap + 1}

\* the backend answers during a run of the loop
RunBackends ==
    {[kind |-> "raises", n |-> 0], [kind |-> "results", n |-> 0],
     [kind |-> "results", n |-> MaxBackend]}

\* the settings under which the HTTP endpoints are exercised
ApiSettings ==
    {st \in RunSettings : st.serpapi_api_key = NoKey /\ st.search_max_results = 1}

EndpointSettings ==
    {st \in ApiSettings : st.max_iterations = 1 /\ ~has_tavily(st)}

\* no model given (None or the empty string, both falsy)
NoModel == ""

\* the default of Settings.openai_model
openai_model == "gpt-4o-mini"

\* ResearchRequest.model of api.py: absent, the configured model, another one
ModelOverrides == {NoModel, openai_model, "gpt-4o"}

\* the messages of an /agui or /copilotkit body; content "" stands for an
\* empty or missing content, role "assistant" for every role but "user"
BodyContents == {"", "What is the capital of France?", "And of Spain?"}

BodyMessages == [role : {"user", "assistant"}, content : BodyContents]

RECURSIVE SeqsUpTo(_, _)
SeqsUpTo(S, n) ==
    IF n = 0 THEN {<<>>}
    ELSE LET shorter == SeqsUpTo(S, n - 1)
         IN  shorter \cup {Append(sq, x) : sq \in {t \in shorter : Len(t) = n - 1}, x \in S}

MessageLists == SeqsUpTo(BodyMessages, MaxMsgs)

Request(model, action, q, msgs) ==
    [model |-> model, action |-> action, query |-> q, messages |-> msgs]

\* the bodies sent to the endpoints of api.py and api_agui.py
ApiRequests == {Request(m, "", q, <<>>) : m \in ModelOverrides, q \in Queries}

AguiRequests == {Request("", "", q, <<>>) : q \in Queries}

AguiBodies == {Request("", "", "", ml) : ml \in MessageLists}

CopilotkitBodies ==
    {Request("", "research", q, <<>>) : q \in Queries \cup {""}} \cup AguiBodies

(***************************************************************************)
(* State                                                                   *)
(***************************************************************************)
VARIABLES
    settings,      \* the cached Settings of get_settings()
    entry,         \* the entry point this behaviour exercises
    query,         \* the caller's query
    agent,         \* the ResearchAgent: [made, max_iterations, tools]
    rpc,           \* position of research: idle, agent, tools, returned, raised
    limit,         \* config["recursion_limit"] handed to the oracle loop
    steps,         \* super-steps the oracle loop has taken
    oracle_calls,  \* invocations of the oracle (the LLM) in this research call
    messages,      \* the transcript of the loop
    outcome,       \* what research returned or raised
    gpc,           \* position of the stream generator
    run_id,        \* run_id of the generator
    message_id,    \* message_id of the generator
    idx,           \* loop variable i of the chunk loop
    events,        \* the events the generator has yielded
    tool_call,     \* the arguments of a direct tool invocation
    tool_output,   \* the text returned by a direct tool invocation
    tool_backend,  \* what the backend did in a direct tool invocation
    backend_calls, \* requests the last tool invocation sent to its backend
    invokes,       \* calls of invoke / ainvoke made for this request
    final,         \* the last message of the transcript invoke returned
    registry,      \* the names registered in _TOOL_REGISTRY
    lookup,        \* the name a diagnostic caller looked up and what it got
    lifespan,      \* api.py: init, up (after startup), down (after shutdown)
    shared,        \* api.py: the module-level _agent
    other,         \* api.py: the agent a concurrent request is running on
    request,       \* the body of the HTTP request
    response       \* the HTTP response of the endpoint

vars ==
    <<settings, entry, query, agent, rpc, limit, steps, oracle_calls, messages,
      outcome, gpc, run_id, message_id, idx, events, tool_call, tool_output,
      tool_backend, backend_calls, invokes, final, registry, lookup, lifespan,
      shared, other, request, response>>

loop_vars ==
    <<rpc, limit, steps, oracle_calls, messages, outcome, backend_calls, invokes, final>>

gen_vars == <<gpc, run_id, message_id, idx, events>>

tool_vars == <<tool_call, tool_output, tool_backend, lookup>>

NoLookup == [name |-> "", tool |-> ""]

api_vars == <<registry, lifespan, shared, other, request, response>>

NoAgent == [made |-> FALSE, model |-> "", max_iterations |-> 0, tools |-> <<>>]

NoMessage == [actor |-> "none"]

NoBackend == [kind |-> "none", n |-> 0]

NoRequest == [model |-> NoModel, action |-> "", query |-> "", messages |-> <<>>]

\* an HTTP response: status, detail of an HTTPException, JSON body
Response(status, detail, body) == [status |-> status, detail |-> detail, body |-> body]

NoBody == [success |-> FALSE, query |-> "", report |-> <<>>, error |-> <<>>]

NoResponse == Response(0, <<>>, NoBody)

\* the endpoints of api.py, and of api_agui.py
Api == {"api_research", "api_research_async"}

\* the requests served by the app of api.py, GET /health included
ApiApp == Api \cup {"api_health"}

Endpoints == {"agui_research", "agui_endpoint", "copilotkit"}

NoOutcome == [kind |-> "none"]

NoCall == [name |-> "", query |-> "", max_results |-> 0]

NoText == Text("none", "", "", 0, {})

Generators == {"agui_stream_generator", "agui_stream_sync"}

Direct == {"research", "research_async"}

Init ==
    /\ entry \in Generators \cup Direct \cup {"tool"} \cup ApiApp \cup Endpoints
    /\ settings \in CASE entry = "tool" -> SettingsSet
                     [] entry \in ApiApp \cup {"agui_research"} -> ApiSettings
                     [] entry \in {"agui_endpoint", "copilotkit"} -> EndpointSettings
                     [] OTHER -> RunSettings
    /\ request \in CASE entry \in Api -> ApiRequests
                    [] entry = "agui_research" -> AguiRequests
                    [] entry = "agui_endpoint" -> AguiBodies
                    [] entry = "copilotkit" -> CopilotkitBodies
                    [] OTHER -> {NoRequest}
    /\ query \in (IF entry \in Api \cup Endpoints THEN {request.query} ELSE Queries)
    /\ agent = NoAgent
    /\ rpc = "idle"
    /\ limit = 0
    /\ steps = 0
    /\ oracle_calls = 0
    /\ messages = <<>>
    /\ outcome = NoOutcome
    /\ gpc = IF entry \in Generators THEN "init" ELSE "none"
    /\ run_id = ""
    /\ message_id = ""
    /\ idx = 0
    /\ events = <<>>
    /\ tool_call = NoCall
    /\ tool_output = NoText
    /\ tool_backend = NoBackend
    /\ backend_calls = 0
    /\ invokes = 0
    /\ final = NoMessage
    /\ registry = TOOL_REGISTRY
    /\ lookup = NoLookup
    /\ lifespan = IF entry \in ApiApp THEN "init" ELSE "none"
    /\ shared = NoAgent
    /\ other = NoAgent
    /\ response = NoResponse

(***************************************************************************)
(* ResearchAgent (src/agent.py, src/prompts.py, src/exceptions.py)         *)
(***************************************************************************)
\* ResearchAgent.__init__: self._model, self._max_iterations, self._tools
ResearchAgent(st, model, max_iterations) ==
    [made |-> TRUE,
     model |-> IF model # NoModel THEN model ELSE openai_model,
     max_iterations |->
        IF max_iterations.present /\ max_iterations.val # 0
          THEN max_iterations.val ELSE st.max_iterations,
     tools |-> get_available_tools(st)]

\* the factory create_agent(model=..., max_iterations=...)
create_agent(st, model, max_iterations) == ResearchAgent(st, model, max_iterations)

\* the instruction envelope around the query
get_human_prompt(q, now) ==
    [template |-> "HUMAN_PROMPT_TEMPLATE", query |-> q, current_date |-> now]

recursion_limit_single(a) == a.max_iterations

recursion_limit_plus(a) == a.max_iterations * 2 + 2

\* config = {"recursion_limit": self._max_iterations * 2}
recursion_limit(a) == a.max_iterations * 2

HumanMessage(content) == [actor |-> "human", content |-> content]

AIToolCall(name, q, max_results) ==
    [actor |-> "ai", content |-> <<>>,
     tool_call |-> [name |-> name, query |-> q, max_results |-> max_results]]

AIMessage(content) == [actor |-> "ai", content |-> content, tool_call |-> NoCall]

ToolMessage(name, content) == [actor |-> "tool", name |-> name, content |-> content]

\* str(result) of a result without messages
StrResult == <<"{", "}">>

extract_output_str(result) == StrResult

\* ResearchAgent._extract_output
extract_output(result) ==
    IF Len(result.messages) > 0
      THEN result.messages[Len(result.messages)].content
      ELSE StrResult

\* AgentExecutionError.__init__ (iterations defaults to 0)
AgentExecutionError(type, message, q, iterations) ==
    [kind |-> "error", type |-> type, message |-> message,
     query |-> q, iterations |-> iterations]

\* raise EmptyResponseError("Agent produced empty output", query=query)
EmptyResponse(q) ==
    AgentExecutionError("EmptyResponseError", <<"Agent produced empty output">>, q, 0)

\* raise AgentExecutionError(f"Research agent error: {e}", query=query) from e
Wrapped(e, q) ==
    AgentExecutionError("AgentExecutionError", <<"Research agent error: ", e>>, q, 0)

ResearchResult(content, q, success) ==
    [kind |-> "result", content |-> content, query |-> q, success |-> success]

\* `if not output`
IsEmptyOutput(output) == Len(output) = 0

\* research / research_async from the return of invoke / ainvoke on
Finish(result, q) ==
    LET output == extract_output(result)
    IN  IF IsEmptyOutput(output)
          THEN EmptyResponse(q)
          ELSE ResearchResult(output, q, TRUE)

\* the entry points that run research_async (the cooperative path)
IsAsync == entry \in {"research_async", "api_research_async"}

\* research_async: config = {"recursion_limit": self._max_iterations * 2}
recursion_limit_async(a) == a.max_iterations * 2

FinishAsync_no_empty_check(result, q) == ResearchResult(extract_output(result), q, TRUE)

\* research_async from the return of ainvoke on
FinishAsync(result, q) ==
    LET output == extract_output(result)
    IN  IF IsEmptyOutput(output)
          THEN EmptyResponse(q)
          ELSE ResearchResult(output, q, TRUE)

\* research_async: raise AgentExecutionError(f"Research agent error: {e}",
\* query=query) from e
WrappedAsync(e, q) ==
    AgentExecutionError("AgentExecutionError", <<"Research agent error: ", e>>, q, 0)

\* research / research_async up to the call of invoke / ainvoke
Begin(a, q) ==
    /\ \E now \in Dates : messages' = <<HumanMessage(get_human_prompt(q, now))>>
    /\ limit' = IF IsAsync THEN recursion_limit_async(a) ELSE recursion_limit(a)
    /\ steps' = 0
    /\ oracle_calls' = 0
    /\ outcome' = NoOutcome
    /\ backend_calls' = 0
    /\ invokes' = invokes + 1
    /\ final' = NoMessage
    /\ rpc' = "agent"

End_retry(o) ==
    IF o.kind = "error" /\ invokes < 2
      THEN /\ outcome' = NoOutcome
           /\ rpc' = "agent"
           /\ messages' = <<messages[1]>>
           /\ backend_calls' = 0
           /\ invokes' = invokes + 1
      ELSE /\ outcome' = o
           /\ rpc' = IF o.kind = "result" THEN "returned" ELSE "raised"
           /\ messages' = <<>>
           /\ backend_calls' = 0
           /\ invokes' = invokes

\* the loop ends: the result is returned or the error raised without
\* another call of invoke, the transcript goes out of scope
End(o) ==
    /\ outcome' = o
    /\ rpc' = IF o.kind = "result" THEN "returned" ELSE "raised"
    /\ messages' = <<>>
    /\ backend_calls' = 0
    /\ invokes' = invokes

\* main.py: create_agent(max_iterations=...) for a direct caller; the
\* registry introspection of a diagnostic caller
CreateAgent ==
    /\ entry \in Direct \cup {"tool"}
    /\ ~agent.made
    /\ \E ov \in Overrides \cup
                  (IF entry \in {"research", "tool"} /\ settings \in OverrideSettings
                     THEN OverridesAbove ELSE {}) :
          agent' = create_agent(settings, NoModel, ov)
    /\ UNCHANGED <<settings, entry, query, loop_vars, gen_vars, tool_vars, api_vars>>

\* agent.research(query) / await agent.research_async(query) of a direct caller
Research ==
    /\ entry \in Direct
    /\ agent.made
    /\ rpc = "idle"
    /\ Begin(agent, query)
    /\ UNCHANGED <<settings, entry, query, agent, gen_vars, tool_vars, api_vars>>

\* the oracle decides to call a tool
OracleToolCall ==
    /\ rpc = "agent"
    /\ steps < limit
    /\ \E name \in OracleToolNames, q \in SearchQueries, k \in OracleMaxResults :
          messages' = Append(messages, AIToolCall(name, q, k))
    /\ steps' = steps + 1
    /\ oracle_calls' = oracle_calls + 1
    /\ rpc' = "tools"
    /\ UNCHANGED <<settings, entry, query, agent, limit, outcome, backend_calls,
                   invokes, final, gen_vars,
                   tool_vars, api_vars>>

\* the tool named by the pending call runs and its text is appended
ToolsStep ==
    /\ rpc = "tools"
    /\ steps < limit
    /\ LET tc == messages[Len(messages)].tool_call
           avail == {agent.tools[i] : i \in 1..Len(agent.tools)}
       IN  IF tc.name \in avail
             THEN \E b \in RunBackends :
                    /\ messages' = Append(messages, ToolMessage(tc.name,
                          CallTool(tc.name, settings, tc.query, tc.max_results, b)))
                    /\ backend_calls' =
                          BackendCalls(tc.name, settings, tc.query, tc.max_results, b)
             ELSE /\ messages' = Append(messages, ToolMessage(tc.name,
                          Text("invalid_tool", "", "", 0, avail)))
                  /\ backend_calls' = 0
    /\ steps' = steps + 1
    /\ rpc' = "agent"
    /\ UNCHANGED <<settings, entry, query, agent, limit, oracle_calls, outcome,
                   invokes, final, gen_vars, tool_vars, api_vars>>

\* the oracle gives its final answer and invoke returns
OracleAnswer ==
    /\ rpc = "agent"
    /\ steps < limit
    /\ \E c \in Answers :
          /\ final' = AIMessage(c)
          /\ LET result == [messages |-> Append(messages, final')]
             IN  End(IF IsAsync THEN FinishAsync(result, query) ELSE Finish(result, query))
    /\ steps' = steps + 1
    /\ oracle_calls' = oracle_calls + 1
    /\ UNCHANGED <<settings, entry, query, agent, limit, gen_vars,
                   tool_vars, api_vars>>

\* the oracle call fails (transport failure, malformed decision)
OracleFails ==
    /\ rpc = "agent"
    /\ steps < limit
    /\ End(IF IsAsync THEN WrappedAsync("OracleError", query)
                   ELSE Wrapped("OracleError", query))
    /\ oracle_calls' = oracle_calls + 1
    /\ UNCHANGED <<settings, entry, query, agent, limit, steps, final, gen_vars,
                   tool_vars, api_vars>>

\* the step budget is used up: invoke raises GraphRecursionError
RecursionLimit ==
    /\ rpc \in {"agent", "tools"}
    /\ steps >= limit
    /\ End(IF IsAsync THEN WrappedAsync("GraphRecursionError", query)
                   ELSE Wrapped("GraphRecursionError", query))
    /\ UNCHANGED <<settings, entry, query, agent, limit, steps, oracle_calls, final,
                   gen_vars, tool_vars, api_vars>>

NoTool == ""

get_tool_by_name_pop(reg, name) ==
    [tool |-> IF name \in reg THEN name ELSE NoTool, registry |-> reg \ {name}]

\* get_tool_by_name: _TOOL_REGISTRY.get(name), and the registry afterwards
get_tool_by_name(reg, name) ==
    [tool |-> IF name \in reg THEN name ELSE NoTool, registry |-> reg]

\* a diagnostic caller looks a tool up by name and, when it got one, calls
\* it: get_tool_by_name(name)(query, max_results). The call runs up to the
\* point where it waits for its backend, or to its return when it needs none
InvokeTool ==
    /\ entry = "tool"
    /\ lookup = NoLookup
    /\ \E name \in OracleToolNames :
          LET r == get_tool_by_name(registry, name)
          IN  /\ lookup' = [name |-> name, tool |-> r.tool]
              /\ registry' = r.registry
              /\ IF r.tool = NoTool
                   THEN UNCHANGED <<tool_call, tool_output, tool_backend, backend_calls>>
                   ELSE \E q \in SearchQueries, k \in 1..(MaxCap + 1), b \in Backends :
                          /\ tool_call' = [name |-> r.tool, query |-> q, max_results |-> k]
                          /\ tool_backend' = b
                          /\ backend_calls' = BackendCalls(r.tool, settings, q, k, b)
                          /\ tool_output' =
                                IF backend_calls' = 0
                                  THEN CallTool(r.tool, settings, q, k, b)
                                  ELSE NoText
    /\ UNCHANGED <<settings, entry, query, agent, rpc, limit, steps, oracle_calls,
                   messages, outcome, invokes, final, gen_vars, lifespan, shared,
                   other, request, response>>

\* the backend has answered (results, or an exception of the client) and
\* the tool function returns; the adapters set no time limit of their own,
\* so nothing returns from a backend that stays silent
ToolReturns ==
    /\ entry = "tool"
    /\ tool_call # NoCall
    /\ tool_output = NoText
    /\ tool_backend.kind # "silent"
    /\ tool_output' = CallTool(tool_call.name, settings, tool_call.query,
                               tool_call.max_results, tool_backend)
    /\ UNCHANGED <<settings, entry, query, agent, loop_vars, gen_vars, tool_call,
                   tool_backend, lookup, api_vars>>

(***************************************************************************)
(* AG-UI stream generators (src/agui_agent.py)                             *)
(*                                                                         *)
(* gpc is the yield at which the generator is suspended: init (not yet     *)
(* started), run_started, msg_started, content, msg_end, finished, error;  *)
(* research while agent.research runs, resumed when it has returned or     *)
(* raised; done when the generator is exhausted, closed when the consumer  *)
(* closed it, fault when closing it failed.                                *)
(***************************************************************************)
\* create_agui_event: one serialized line per event
create_agui_event(event_type, kwargs) == [type |-> event_type] @@ kwargs

Now == "utcnow"

RunStarted(rid) == create_agui_event("RUN_STARTED", [runId |-> rid, timestamp |-> Now])

TextMessageStart(mid) ==
    create_agui_event("TEXT_MESSAGE_START", [messageId |-> mid, role |-> "assistant"])

TextMessageContent_fresh_id(mid, chunk) ==
    create_agui_event("TEXT_MESSAGE_CONTENT", [messageId |-> "uuid-0", delta |-> chunk])

TextMessageContent(mid, chunk) ==
    create_agui_event("TEXT_MESSAGE_CONTENT", [messageId |-> mid, delta |-> chunk])

TextMessageEnd(mid) == create_agui_event("TEXT_MESSAGE_END", [messageId |-> mid])

RunFinished(rid) == create_agui_event("RUN_FINISHED", [runId |-> rid, timestamp |-> Now])

\* ResearchAgentError.__str__ with non-empty details
StrError(e) ==
    [message |-> e.message, details |-> [query |-> e.query, iterations |-> e.iterations]]

RunError(rid, e) ==
    create_agui_event("RUN_ERROR",
        [runId |-> rid, message |-> StrError(e), code |-> "AGENT_ERROR"])

Chunk_short(content, i) == SubSeq(content, i + 1, Min(i + chunk_size - 1, Len(content)))

\* content[i:i + chunk_size]
Chunk(content, i) == SubSeq(content, i + 1, Min(i + chunk_size, Len(content)))

NextIndex_overlap(i) == i + chunk_size - 1

\* the value after i in range(0, len(content), chunk_size)
NextIndex(i) == i + chunk_size

EmitFrom_no_end(content, i) ==
    IF i < Len(content)
      THEN /\ events' = Append(events, TextMessageContent(message_id, Chunk(content, i)))
           /\ idx' = i
           /\ gpc' = "content"
      ELSE /\ events' = events
           /\ idx' = idx
           /\ gpc' = "msg_end"

\* one step of the chunk loop from index i: the next chunk, or the end of
\* the message when the range is exhausted
EmitFrom(content, i) ==
    IF i < Len(content)
      THEN /\ events' = Append(events, TextMessageContent(message_id, Chunk(content, i)))
           /\ idx' = i
           /\ gpc' = "content"
      ELSE /\ events' = Append(events, TextMessageEnd(message_id))
           /\ idx' = idx
           /\ gpc' = "msg_end"

OnError_closing_message(rid, e) == <<TextMessageEnd(message_id), RunError(rid, e)>>

OnError_then_finish(rid, e) == <<RunError(rid, e), RunFinished(rid)>>

\* what the except clause yields
OnError(rid, e) == <<RunError(rid, e)>>

\* first next(): ids are drawn and RUN_STARTED is yielded
GenStart ==
    /\ gpc = "init"
    /\ \E rid \in UUIDs, mid \in UUIDs :
          /\ rid # mid
          /\ run_id' = rid
          /\ message_id' = mid
          /\ events' = Append(events, RunStarted(rid))
    /\ gpc' = "run_started"
    /\ UNCHANGED <<settings, entry, query, agent, loop_vars, idx, tool_vars, api_vars>>

\* TEXT_MESSAGE_START is yielded
GenMessageStart ==
    /\ gpc = "run_started"
    /\ events' = Append(events, TextMessageStart(message_id))
    /\ gpc' = "msg_started"
    /\ UNCHANGED <<settings, entry, query, agent, loop_vars, run_id, message_id, idx,
                   tool_vars, api_vars>>

\* the try block is entered: create_agent() and agent.research(query)
GenResearch ==
    /\ gpc = "msg_started"
    /\ agent' = create_agent(settings, NoModel, NoInt)
    /\ Begin(agent', query)
    /\ gpc' = "research"
    /\ UNCHANGED <<settings, entry, query, run_id, message_id, idx, events,
                   tool_vars, api_vars>>

\* agent.research returned: the first chunk (or the message end) is yielded
GenReturned ==
    /\ gpc = "research"
    /\ rpc = "returned"
    /\ EmitFrom(outcome.content, 0)
    /\ UNCHANGED <<settings, entry, query, agent, loop_vars, run_id, message_id,
                   tool_vars, api_vars>>

\* agent.research raised: the except clause yields RUN_ERROR
GenRaised ==
    /\ gpc = "research"
    /\ rpc = "raised"
    /\ events' = events \o OnError(run_id, outcome)
    /\ gpc' = "error"
    /\ UNCHANGED <<settings, entry, query, agent, loop_vars, run_id, message_id, idx,
                   tool_vars, api_vars>>

\* the chunk loop goes on after a TEXT_MESSAGE_CONTENT
GenContent ==
    /\ gpc = "content"
    /\ EmitFrom(outcome.content, NextIndex(idx))
    /\ UNCHANGED <<settings, entry, query, agent, loop_vars, run_id, message_id,
                   tool_vars, api_vars>>

\* RUN_FINISHED is yielded after TEXT_MESSAGE_END
GenRunFinished ==
    /\ gpc = "msg_end"
    /\ events' = Append(events, RunFinished(run_id))
    /\ gpc' = "finished"
    /\ UNCHANGED <<settings, entry, query, agent, loop_vars, run_id, message_id, idx,
                   tool_vars, api_vars>>

\* the generator returns after its last yield
GenStop ==
    /\ gpc \in {"finished", "error"}
    /\ gpc' = "done"
    /\ UNCHANGED <<settings, entry, query, agent, loop_vars, run_id, message_id, idx,
                   events, tool_vars, api_vars>>

\* the exceptions thrown into a suspended generator when its consumer closes
\* or cancels it; they derive from BaseException, not from Exception
CloseExceptions == {"GeneratorExit", "CancelledError"}

Catches_all(exc) == TRUE

\* `except Exception as e`
Catches(exc) == exc \notin CloseExceptions

\* the yields inside the try block
InTry(pos) == pos \in {"content", "msg_end", "finished"}

\* the exception exc seen by the except clause
Thrown(exc) == AgentExecutionError(exc, <<>>, "", 0)

\* the consumer closes the generator while it is suspended (client
\* disconnect): the exception is thrown in at the yield; if the except
\* clause caught it, the RUN_ERROR it yields would make close fail with
\* RuntimeError (gpc = "fault")
GenClose ==
    /\ gpc \in {"init", "run_started", "msg_started", "content", "msg_end",
                 "finished", "error"}
    /\ \E exc \in CloseExceptions :
          IF InTry(gpc) /\ Catches(exc)
            THEN /\ events' = events \o OnError(run_id, Thrown(exc))
                 /\ gpc' = "fault"
            ELSE /\ events' = events
                 /\ gpc' = "closed"
    /\ UNCHANGED <<settings, entry, query, agent, loop_vars, run_id, message_id, idx,
                   tool_vars, api_vars>>

(***************************************************************************)
(* HTTP endpoints (api.py, api_agui.py)                                    *)
(*                                                                         *)
(* A handler that runs the loop is two actions: up to the call of          *)
(* research, and from its return or raise to the response.                 *)
(***************************************************************************)
\* raise HTTPException(status_code=status, detail=detail)
HTTPException(status, detail) == Response(status, detail, NoBody)

\* ResearchResponse / the JSON dict of a finished research; error is empty
\* or holds the one error string
Json(success, q, report, error) ==
    Response(200, <<>>, [success |-> success, query |-> q, report |-> report, error |-> error])

\* StreamingResponse(agui_stream_generator(query), ...)
StreamingResponse == Response(200, <<>>, NoBody)

\* the subclasses of ResearchAgentError that research raises
ResearchAgentErrors == {"AgentExecutionError", "EmptyResponseError"}

select_agent_in_place(sh, st, model) ==
    IF model # NoModel /\ model # sh.model
      THEN [agent |-> [sh EXCEPT !.model = model], shared |-> [sh EXCEPT !.model = model]]
      ELSE [agent |-> sh, shared |-> sh]

\* api.py research: the agent the request runs on, and _agent afterwards
select_agent(sh, st, model) ==
    IF model # NoModel /\ model # sh.model
      THEN [agent |-> create_agent(st, model, NoInt), shared |-> sh]
      ELSE [agent |-> sh, shared |-> sh]

\* api.py research / research_async: the response for what research did
api_response(o, q) ==
    IF o.kind = "result" THEN Json(o.success, o.query, o.content, <<>>)
    ELSE IF o.type \in ResearchAgentErrors THEN Json(FALSE, q, <<>>, <<StrError(o)>>)
    ELSE HTTPException(500, <<StrError(o)>>)

\* api_agui.py research_endpoint: the response for what research did
agui_response(o) ==
    IF o.kind = "result" THEN Json(o.success, o.query, o.content, <<>>)
    ELSE HTTPException(500, <<StrError(o)>>)

\* api_agui.py copilotkit_endpoint, action "research"
copilotkit_response(o) ==
    IF o.kind = "result" THEN Json(TRUE, "", o.content, <<>>)
    ELSE HTTPException(500, <<StrError(o)>>)

RECURSIVE LastUserContent(_)
LastUserContent_first(msgs) ==
    LET users == {i \in 1..Len(msgs) : msgs[i].role = "user"}
    IN  IF users = {} THEN ""
        ELSE msgs[CHOOSE i \in users : \A j \in users : i <= j].content

\* for msg in reversed(messages): the content of the first message with
\* role "user", None ("") when there is none
LastUserContent(msgs) ==
    IF Len(msgs) = 0 THEN ""
    ELSE IF msgs[Len(msgs)].role = "user" THEN msgs[Len(msgs)].content
    ELSE LastUserContent(SubSeq(msgs, 1, Len(msgs) - 1))

\* lifespan up to its yield
Startup ==
    /\ entry \in ApiApp
    /\ lifespan = "init"
    /\ shared' = create_agent(settings, NoModel, NoInt)
    /\ lifespan' = "up"
    /\ UNCHANGED <<settings, entry, query, agent, loop_vars, gen_vars, tool_vars,
                   registry, other, request, response>>

\* lifespan after its yield, once no request is being handled
Shutdown ==
    /\ entry \in ApiApp
    /\ lifespan = "up"
    /\ rpc \in {"idle", "returned", "raised"}
    /\ rpc = "idle" \/ response.status # 0
    /\ ~other.made
    /\ shared' = NoAgent
    /\ lifespan' = "down"
    /\ UNCHANGED <<settings, entry, query, agent, loop_vars, gen_vars, tool_vars,
                   registry, other, request, response>>

\* research of api.py calls the synchronous agent.research inside a
\* coroutine: until it returns, the event loop runs no other handler
EventLoopBlocked == entry = "api_research" /\ rpc \in {"agent", "tools"}

\* another request starts being handled on _agent at the same time
OtherArrives ==
    /\ entry \in Api
    /\ ~EventLoopBlocked
    /\ shared.made
    /\ other = NoAgent
    /\ other' = shared
    /\ UNCHANGED <<settings, entry, query, agent, loop_vars, gen_vars, tool_vars,
                   registry, lifespan, shared, request, response>>

\* the other request has been answered
OtherLeaves ==
    /\ other.made
    /\ ~EventLoopBlocked
    /\ other' = [other EXCEPT !.made = FALSE]
    /\ UNCHANGED <<settings, entry, query, agent, loop_vars, gen_vars, tool_vars,
                   registry, lifespan, shared, request, response>>

\* HealthResponse(status=..., model=..., tools=...)
HealthResponse(status, model, tools) ==
    Response(200, <<>>, [status |-> status, model |-> model, tools |-> tools])

health_check_always(sh) == HealthResponse("healthy", sh.model, sh.tools)

\* api.py health_check
health_check(sh) ==
    IF ~sh.made
      THEN HTTPException(503, <<"Agent not initialized">>)
      ELSE HealthResponse("healthy", sh.model, sh.tools)

\* GET /health of api.py
HealthCheck ==
    /\ entry = "api_health"
    /\ response.status = 0
    /\ response' = health_check(shared)
    /\ UNCHANGED <<settings, entry, query, agent, loop_vars, gen_vars, tool_vars,
                   registry, lifespan, shared, other, request>>

\* POST /research of api.py up to agent.research(request.query)
ApiResearch ==
    /\ entry = "api_research"
    /\ response.status = 0
    /\ rpc = "idle"
    /\ IF ~shared.made
         THEN /\ response' = HTTPException(503, <<"Agent not initialized">>)
              /\ UNCHANGED <<agent, shared, loop_vars>>
         ELSE LET sel == select_agent(shared, settings, request.model)
              IN  /\ agent' = sel.agent
                  /\ shared' = sel.shared
                  /\ Begin(agent', query)
                  /\ response' = response
    /\ UNCHANGED <<settings, entry, query, gen_vars, tool_vars, registry, lifespan,
                   other, request>>

\* POST /research/async of api.py up to _agent.research_async(request.query)
ApiResearchAsync ==
    /\ entry = "api_research_async"
    /\ response.status = 0
    /\ rpc = "idle"
    /\ IF ~shared.made
         THEN /\ response' = HTTPException(503, <<"Agent not initialized">>)
              /\ UNCHANGED <<agent, loop_vars>>
         ELSE /\ agent' = shared
              /\ Begin(agent', query)
              /\ response' = response
    /\ UNCHANGED <<settings, entry, query, gen_vars, tool_vars, registry, lifespan,
                   shared, other, request>>

\* research / research_async of api.py from the return or raise on
ApiRespond ==
    /\ entry \in Api
    /\ response.status = 0
    /\ rpc \in {"returned", "raised"}
    /\ response' = api_response(outcome, request.query)
    /\ UNCHANGED <<settings, entry, query, agent, loop_vars, gen_vars, tool_vars,
                   registry, lifespan, shared, other, request>>

\* POST /research of api_agui.py up to agent.research(request.query)
AguiResearch ==
    /\ entry = "agui_research"
    /\ response.status = 0
    /\ rpc = "idle"
    /\ agent' = create_agent(settings, NoModel, NoInt)
    /\ Begin(agent', query)
    /\ UNCHANGED <<settings, entry, query, gen_vars, tool_vars, api_vars>>

\* research_endpoint of api_agui.py from the return or raise on
AguiRespond ==
    /\ entry = "agui_research"
    /\ response.status = 0
    /\ rpc \in {"returned", "raised"}
    /\ response' = agui_response(outcome)
    /\ UNCHANGED <<settings, entry, query, agent, loop_vars, gen_vars, tool_vars,
                   registry, lifespan, shared, other, request>>

\* POST /agui: the query is taken from the body and the stream is handed
\* to the server, or the request is refused
AguiEndpoint ==
    /\ entry = "agui_endpoint"
    /\ response.status = 0
    /\ LET q == LastUserContent(request.messages)
       IN  IF Len(request.messages) = 0
             THEN /\ response' = HTTPException(400, <<"No messages provided">>)
                  /\ UNCHANGED <<query, gpc>>
           ELSE IF q = ""
             THEN /\ response' = HTTPException(400, <<"No user message found">>)
                  /\ UNCHANGED <<query, gpc>>
           ELSE /\ query' = q
                /\ gpc' = "init"
                /\ response' = StreamingResponse
    /\ UNCHANGED <<settings, entry, agent, loop_vars, run_id, message_id, idx, events,
                   tool_vars, registry, lifespan, shared, other, request>>

\* POST /copilotkit up to agent.research(query) for the action "research",
\* up to the StreamingResponse for chat messages
Copilotkit ==
    /\ entry = "copilotkit"
    /\ response.status = 0
    /\ rpc = "idle"
    /\ LET q == LastUserContent(request.messages)
       IN  IF request.action = "research"
             THEN IF request.query = ""
                    THEN /\ response' = HTTPException(400, <<"Query required">>)
                         /\ UNCHANGED <<query, agent, loop_vars, gpc>>
                    ELSE /\ agent' = create_agent(settings, NoModel, NoInt)
                         /\ Begin(agent', request.query)
                         /\ UNCHANGED <<query, response, gpc>>
           ELSE IF Len(request.messages) > 0 /\ q # ""
             THEN /\ query' = q
                  /\ gpc' = "init"
                  /\ response' = StreamingResponse
                  /\ UNCHANGED <<agent, loop_vars>>
           ELSE /\ response' = HTTPException(400, <<"Invalid request format">>)
                /\ UNCHANGED <<query, agent, loop_vars, gpc>>
    /\ UNCHANGED <<settings, entry, run_id, message_id, idx, events, tool_vars,
                   registry, lifespan, shared, other, request>>

\* copilotkit_endpoint, action "research", from the return or raise on
CopilotkitRespond ==
    /\ entry = "copilotkit"
    /\ request.action = "research"
    /\ response.status = 0
    /\ rpc \in {"returned", "raised"}
    /\ response' = copilotkit_response(outcome)
    /\ UNCHANGED <<settings, entry, query, agent, loop_vars, gen_vars, tool_vars,
                   registry, lifespan, shared, other, request>>

Next ==
    \/ Startup
    \/ Shutdown
    \/ OtherArrives
    \/ OtherLeaves
    \/ HealthCheck
    \/ ApiResearch
    \/ ApiResearchAsync
    \/ ApiRespond
    \/ AguiResearch
    \/ AguiRespond
    \/ AguiEndpoint
    \/ Copilotkit
    \/ CopilotkitRespond
    \/ CreateAgent
    \/ Research
    \/ OracleToolCall
    \/ ToolsStep
    \/ OracleAnswer
    \/ OracleFails
    \/ RecursionLimit
    \/ InvokeTool
    \/ ToolReturns
    \/ GenStart
    \/ GenMessageStart
    \/ GenResearch
    \/ GenReturned
    \/ GenRaised
    \/ GenContent
    \/ GenRunFinished
    \/ GenStop
    \/ GenClose

Spec == Init /\ [][Next]_vars

(***************************************************************************)
(* Properties                                                              *)
(***************************************************************************)
Last(seq) == seq[Len(seq)]

Streaming == gpc # "none"

\* the i-th event of a successful stream follows the fixed order
HappyAt(i) ==
    LET t == events[i].type
    IN  \/ i = 1 /\ t = "RUN_STARTED"
        \/ i = 2 /\ t = "TEXT_MESSAGE_START" /\ events[i].role = "assistant"
        \/ i > 2 /\ t = "TEXT_MESSAGE_CONTENT"
                 /\ events[i - 1].type \in {"TEXT_MESSAGE_START", "TEXT_MESSAGE_CONTENT"}
        \/ i > 2 /\ t = "TEXT_MESSAGE_END"
                 /\ events[i - 1].type \in {"TEXT_MESSAGE_START", "TEXT_MESSAGE_CONTENT"}
        \/ i > 2 /\ t = "RUN_FINISHED" /\ events[i - 1].type = "TEXT_MESSAGE_END"

\* C1: when agent.research returned a result, the events emitted so far are
\* a prefix of RUN_STARTED, TEXT_MESSAGE_START(role assistant),
\* TEXT_MESSAGE_CONTENT*, TEXT_MESSAGE_END, RUN_FINISHED, and the exhausted
\* generator has emitted the whole sequence, ending with RUN_FINISHED.
C1_HappyPathOrder ==
    (Streaming /\ rpc = "returned") =>
        /\ \A i \in 1..Len(events) : HappyAt(i)
        /\ gpc \in {"finished", "done"} =>
              /\ Len(events) >= 4
              /\ Last(events).type = "RUN_FINISHED"
        /\ gpc \in {"content", "msg_end"} => Last(events).type # "RUN_FINISHED"

C1_Witness ==
    /\ entry = "agui_stream_generator"
    /\ gpc = "done"
    /\ rpc = "returned"
    /\ Len(events) = 7

RECURSIVE ConcatDeltas(_)
ConcatDeltas(evs) ==
    IF Len(evs) = 0 THEN <<>>
    ELSE (IF Head(evs).type = "TEXT_MESSAGE_CONTENT" THEN Head(evs).delta ELSE <<>>)
             \o ConcatDeltas(Tail(evs))

\* C2: the deltas of the TEXT_MESSAGE_CONTENT events, concatenated in
\* emission order, are at every moment a prefix of the report text and, once
\* the chunk loop is over, exactly the report text.
C2_DeltasReproduceReport ==
    (Streaming /\ rpc = "returned") =>
        LET d == ConcatDeltas(events)
        IN  /\ Len(d) <= Len(outcome.content)
            /\ d = SubSeq(outcome.content, 1, Len(d))
            /\ gpc \in {"msg_end", "finished", "done"} => d = outcome.content

C2_Witness ==
    /\ Streaming
    /\ gpc = "msg_end"
    /\ Len(outcome.content) = 2 * chunk_size + 1
    /\ ConcatDeltas(events) = outcome.content

\* C3: when agent.research raised, the generator emits exactly one
\* RUN_ERROR, carrying the run's runId, the error message and code
\* AGENT_ERROR; it is the last event, and no TEXT_MESSAGE_CONTENT,
\* TEXT_MESSAGE_END or RUN_FINISHED is emitted in that run.
C3_SingleRunError ==
    /\ \A i \in 1..Len(events) :
          events[i].type = "RUN_ERROR" =>
              /\ i = Len(events)
              /\ rpc = "raised"
              /\ events[i].runId = run_id
              /\ events[i].code = "AGENT_ERROR"
              /\ events[i].message.message = outcome.message
    /\ (Streaming /\ rpc = "raised") =>
          /\ \A i \in 1..Len(events) :
                events[i].type \in {"RUN_STARTED", "TEXT_MESSAGE_START", "RUN_ERROR"}
          /\ gpc \in {"error", "done"} =>
                /\ Len(events) = 3
                /\ Last(events).type = "RUN_ERROR"

C3_Witness ==
    /\ entry = "agui_stream_sync"
    /\ gpc = "done"
    /\ rpc = "raised"
    /\ Last(events).type = "RUN_ERROR"

IsBlank(text) == \A i \in 1..Len(text) : text[i] = " "

\* C4: research and research_async never return a ResearchResult with
\* success = TRUE whose content is blank or whitespace-only.
C4_BlankAnswerNeverSucceeds ==
    (outcome.kind = "result" /\ outcome.success) => ~IsBlank(outcome.content)

Running == rpc \in {"agent", "tools"}

Terminated == rpc \in {"returned", "raised"}

BoundExceeded ==
    /\ outcome.kind = "error"
    /\ outcome.message = <<"Research agent error: ", "GraphRecursionError">>

C7_ErrorCarriesIterations ==
    (rpc = "raised" /\ outcome.type # "EmptyResponseError") =>
        /\ outcome.type = "AgentExecutionError"
        /\ outcome.query = query
        /\ outcome.iterations = steps

ToolSet(a) == {a.tools[i] : i \in 1..Len(a.tools)}

\* C8: the tool list of every agent is non-empty and contains
\* web_search_ddg; without any valid optional credential it is exactly
\* [web_search_ddg].
C8_FallbackAlwaysPresent ==
    agent.made =>
        /\ Len(agent.tools) >= 1
        /\ "web_search_ddg" \in ToolSet(agent)
        /\ (~settings.tavily_api_key.present /\ ~settings.serpapi_api_key.present)
              => agent.tools = <<"web_search_ddg">>
        /\ (~has_tavily(settings) /\ ~has_serpapi(settings))
              => agent.tools = <<"web_search_ddg">>

C8_Witness ==
    /\ agent.made
    /\ ~settings.tavily_api_key.present
    /\ ~settings.serpapi_api_key.present
    /\ agent.tools = <<"web_search_ddg">>

Rank(name) ==
    CASE name \in {"tavily_search", "tavily_search_news"} -> 1
      [] name \in {"serpapi_search", "serpapi_search_news"} -> 2
      [] OTHER -> 3

\* C9: in the tool list every Tavily tool precedes every SerpAPI tool,
\* every SerpAPI tool precedes web_search_ddg, and web_search_ddg is the
\* last element and occurs once.
C9_PreferenceOrder ==
    agent.made =>
        /\ \A i, j \in 1..Len(agent.tools) :
              i < j => Rank(agent.tools[i]) <= Rank(agent.tools[j])
        /\ Last(agent.tools) = "web_search_ddg"
        /\ \A i \in 1..(Len(agent.tools) - 1) : agent.tools[i] # "web_search_ddg"

C9_Witness ==
    /\ agent.made
    /\ Len(agent.tools) = 5
    /\ agent.tools[1] = "tavily_search"
    /\ agent.tools[3] = "serpapi_search"

\* C10: for every adapter called with max_results above the cap, the
\* returned text holds at most search_max_results results.
C10_ResultsClamped ==
    /\ (tool_call.max_results > settings.search_max_results
            /\ tool_output.kind = "results")
          => tool_output.entries <= settings.search_max_results
    /\ \A i \in 2..Len(messages) :
          (/\ messages[i].actor = "tool"
           /\ messages[i].content.kind = "results"
           /\ messages[i - 1].tool_call.max_results > settings.search_max_results)
              => messages[i].content.entries <= settings.search_max_results

\* the texts an adapter can hand back as its string
TextKinds == {"results", "no_results", "no_news", "not_configured", "not_installed", "error"}

\* C11: every tool invocation that ends, ends with a returned text, whatever
\* the backend did (results, no results, missing credential or package,
\* backend exception): no exception leaves the adapter, neither in a direct
\* call nor in a tool step of the loop.
C11_ToolReturnsText ==
    /\ tool_output # NoText => tool_output.kind \in TextKinds
    /\ \A i \in 1..Len(messages) :
          messages[i].actor = "tool" => messages[i].content.kind # "raised"

C11_Witness ==
    /\ tool_call.name = "tavily_search"
    /\ has_tavily(settings)
    /\ tool_backend.kind = "raises"
    /\ tool_output.kind = "error"

\* C12: for every adapter, the text returned when the provider failed or is
\* unavailable names at least one other provider's tool to use instead.
C12_ErrorSuggestsAlternate ==
    (tool_call # NoCall /\ tool_output.kind \in {"error", "not_configured", "not_installed"})
        => /\ tool_output.suggests # {}
           /\ tool_output.suggests \subseteq TOOL_REGISTRY \ {tool_call.name}

\* C13: for every adapter whose backend was asked and returned an empty
\* result set, the returned text is the "no results" message naming the
\* query of the call; it is none of the error texts.
C13_NoResultsMessage ==
    (/\ tool_output # NoText
     /\ backend_calls > 0
     /\ tool_backend = [kind |-> "results", n |-> 0])
        => /\ tool_output.kind \in {"no_results", "no_news"}
           /\ tool_output.query = tool_call.query
           /\ tool_output.suggests = {}

C13_Witness ==
    /\ tool_call.name = "serpapi_search"
    /\ backend_calls = 1
    /\ tool_backend = [kind |-> "results", n |-> 0]
    /\ tool_output.kind = "no_results"
    /\ tool_output.query = tool_call.query

Blocking == Api \cup {"agui_research"}

\* C14: at POST /research and /research/async of api.py and POST /research
\* of api_agui.py, a research call that raised is answered with a structured
\* result (success false, an error message) and never with HTTP 500; in a
\* stream it is reported by exactly one RUN_ERROR event.
C14_FailureIsStructured ==
    /\ (entry \in Blocking /\ rpc = "raised" /\ response.status # 0) =>
          /\ response.status = 200
          /\ ~response.body.success
          /\ Len(response.body.error) > 0
    /\ (Streaming /\ rpc = "raised" /\ gpc \in {"error", "done"}) =>
          Cardinality({i \in 1..Len(events) : events[i].type = "RUN_ERROR"}) = 1

\* C15: when research / research_async returns, the result is a
\* ResearchResult with success true, whose content is the non-empty content
\* of the last message of the transcript (the oracle's terminal answer) and
\* whose query is the caller's query, not the envelope sent to the oracle.
C15_SuccessResult ==
    rpc = "returned" =>
        /\ outcome.kind = "result"
        /\ outcome.success
        /\ final.actor = "ai"
        /\ outcome.content = final.content
        /\ Len(outcome.content) > 0
        /\ outcome.query = query

C15_Witness ==
    /\ rpc = "returned"
    /\ oracle_calls > 1
    /\ outcome.content = Report(chunk_size + 1)
    /\ final.content = Report(chunk_size + 1)
    /\ outcome.query = "What is the capital of France?"

\* C16: within one research request invoke / ainvoke is called at most once
\* (exactly once when research has returned or raised), and one tool
\* invocation sends at most one request to its backend, also when the loop
\* or the backend failed.
C16_NoRetry ==
    /\ invokes <= 1
    /\ backend_calls <= 1
    /\ rpc \in {"returned", "raised"} => invokes = 1

C16_Witness ==
    /\ rpc = "agent"
    /\ invokes = 1
    /\ Len(messages) = 3
    /\ messages[3].actor = "tool"
    /\ messages[3].content.kind = "error"
    /\ backend_calls = 1

\* the pending tool call names a tool the agent was not built with
UnknownToolPending ==
    /\ rpc = "tools"
    /\ Last(messages).tool_call.name \notin ToolSet(agent)

\* C17: when the oracle requests a tool that is not among the agent's
\* tools, the next step of the loop is its failure with AgentExecutionError:
\* the request is not answered and the loop does not go on.
C17_UnknownToolFails ==
    [][(UnknownToolPending /\ rpc' # "tools")
          => (rpc' = "raised" /\ outcome'.type = "AgentExecutionError")]_vars

\* the request goes through the chat-message path of /agui or /copilotkit
ChatRequest ==
    \/ entry = "agui_endpoint"
    \/ entry = "copilotkit" /\ request.action # "research"

UserMessages == {i \in 1..Len(request.messages) : request.messages[i].role = "user"}

\* C18: at /agui (and on the chat path of /copilotkit) a stream is started
\* only with the content of the most recent message of role "user" as its
\* query; a body whose message list is empty or holds no user message is
\* answered with HTTP 400 and no generator is created.
C18_QueryFromLastUserMessage ==
    ChatRequest =>
        /\ gpc # "none" =>
              /\ response.status = 200
              /\ \E i \in UserMessages :
                    /\ \A j \in UserMessages : j <= i
                    /\ query = request.messages[i].content
                    /\ query # ""
        /\ (response.status # 0 /\ UserMessages = {}) =>
              /\ response.status = 400
              /\ gpc = "none"
              /\ events = <<>>
              /\ rpc = "idle"

C18_Witness ==
    /\ entry = "agui_endpoint"
    /\ Len(request.messages) = 2
    /\ UserMessages = {1, 2}
    /\ request.messages[1].content = "What is the capital of France?"
    /\ request.messages[2].content = "And of Spain?"
    /\ gpc = "run_started"
    /\ query = "And of Spain?"

\* C19: handling a request, with or without a model override, leaves the
\* module-level agent of api.py as lifespan made it (model, tool list, step
\* bound), so a concurrent request runs on an unchanged agent; a research
\* call never changes the agent it runs on, and the tool registry is the
\* same in every state.
C19_NoSharedMutation ==
    /\ [](registry = TOOL_REGISTRY)
    /\ []((other.made /\ shared.made) => other = shared)
    /\ [][/\ (shared.made /\ shared'.made) => shared' = shared
          /\ (rpc # "idle" /\ agent.made) => agent' = agent]_vars

C19_Witness ==
    /\ entry = "api_research"
    /\ request.model = "gpt-4o"
    /\ response.status = 200
    /\ response.body.success
    /\ agent.model = "gpt-4o"
    /\ shared.made
    /\ shared.model = openai_model
    /\ other = shared

\* C20: when the consumer closes the generator (client disconnect), at any
\* yield and so between TEXT_MESSAGE_START and TEXT_MESSAGE_END, the close
\* succeeds without a fault, the closed generator stays closed, and neither
\* the close nor any later step adds an event: no RUN_ERROR follows.
C20_CloseIsSilent ==
    /\ [](gpc # "fault")
    /\ [][/\ gpc' = "closed" => events' = events
          /\ gpc = "closed" => gpc' = "closed"]_vars

C20_Witness ==
    /\ gpc = "closed"
    /\ rpc = "returned"
    /\ Len(outcome.content) = 2 * chunk_size + 1
    /\ Len(events) = 3
    /\ events[2].type = "TEXT_MESSAGE_START"
    /\ events[3].type = "TEXT_MESSAGE_CONTENT"

\* a tool function has been called and has not returned
ToolWaiting == tool_call # NoCall /\ tool_output = NoText

\* C21: a tool invocation that waits for its backend can always go on to
\* its return: also when the backend does not answer, a step of the adapter
\* (its bounded wait running out) ends the invocation with a text.
C21_InvocationReturns == ToolWaiting => ENABLED ToolReturns

\* C22: a lookup by name gives the registered tool for each of the five
\* registered names, under every configuration of credentials, and None for
\* every other name; the registry is the same after the lookup.
C22_LookupByName ==
    /\ lookup # NoLookup =>
          IF lookup.name \in TOOL_REGISTRY
            THEN lookup.tool = lookup.name
            ELSE lookup.tool = NoTool
    /\ registry = TOOL_REGISTRY
    /\ Cardinality(TOOL_REGISTRY) = 5

C22_Witness ==
    /\ lookup.name = "tavily_search_news"
    /\ lookup.tool = "tavily_search_news"
    /\ ~has_tavily(settings)
    /\ tool_output.kind = "not_configured"

\* C23: research_async gives what research gives: the same step budget,
\* and for the same query and the same end of the loop (terminal message,
\* or failure of invoke) the same ResearchResult or the same error; another
\* request is served while a research call runs only on the cooperative
\* path, where the call is suspended at the oracle or at a tool.
C23_SyncAsyncEquivalent ==
    /\ [](IsAsync =>
            /\ rpc # "idle" => limit = recursion_limit(agent)
            /\ (rpc \in {"returned", "raised"} /\ final.actor # "none") =>
                  outcome = Finish([messages |-> <<final>>], query)
            /\ (rpc = "raised" /\ final.actor = "none") =>
                  \E e \in {"OracleError", "GraphRecursionError"} :
                      outcome = Wrapped(e, query))
    /\ [][(other' # other /\ rpc \in {"agent", "tools"}) => IsAsync]_vars

C23_Witness ==
    /\ entry = "research_async"
    /\ rpc = "raised"
    /\ final.actor = "ai"
    /\ final.content = <<>>
    /\ outcome.type = "EmptyResponseError"

\* the request of api.py names a model other than the one of the shared agent
Overridden == request.model # NoModel /\ request.model # openai_model

\* C24: at /research and /research/async of api.py, a request with a model
\* override different from the default runs its research on an agent of the
\* overriding model; a request without one runs on the shared agent.
C24_OverrideHonoured ==
    (entry \in Api /\ rpc # "idle") =>
        IF Overridden
          THEN agent.model = request.model
          ELSE agent.model = openai_model /\ (shared.made => agent = shared)

RunEvents == {"RUN_STARTED", "RUN_FINISHED", "RUN_ERROR"}

MessageEvents == {"TEXT_MESSAGE_START", "TEXT_MESSAGE_CONTENT", "TEXT_MESSAGE_END"}

TerminalEvents == {"RUN_FINISHED", "RUN_ERROR"}

\* C25: in every stream the first event is RUN_STARTED, every run event
\* carries its runId and every message event the messageId of
\* TEXT_MESSAGE_START; terminal events come last, and a stream that ran to
\* its end holds exactly one of them, RUN_FINISHED or RUN_ERROR.
C25_IdsAndTerminal ==
    /\ Len(events) > 0 => events[1].type = "RUN_STARTED"
    /\ \A i \in 1..Len(events) :
          /\ events[i].type \in RunEvents =>
                events[i].runId = events[1].runId /\ events[i].runId = run_id
          /\ events[i].type \in MessageEvents =>
                events[i].messageId = events[2].messageId /\ events[i].messageId = message_id
          /\ events[i].type \in TerminalEvents => i = Len(events)
          /\ (events[i].type = "RUN_STARTED") = (i = 1)
    /\ gpc \in {"finished", "error", "done"} => Last(events).type \in TerminalEvents
    /\ gpc = "error" => Last(events).type = "RUN_ERROR"
    /\ gpc = "finished" => Last(events).type = "RUN_FINISHED"

C25_Witness ==
    /\ gpc = "done"
    /\ rpc = "returned"
    /\ Len(events) = 6
    /\ events[3].type = "TEXT_MESSAGE_CONTENT"
    /\ events[4].messageId = events[2].messageId
    /\ events[6].type = "RUN_FINISHED"
    /\ events[6].runId = events[1].runId

\* C26: when agent.research raised, the events of the stream are exactly
\* RUN_STARTED, TEXT_MESSAGE_START, RUN_ERROR once the error is reported;
\* a stream that holds a RUN_ERROR holds no TEXT_MESSAGE_CONTENT and no
\* TEXT_MESSAGE_END, and no content is emitted while research has not
\* returned.
C26_FailureSequence ==
    /\ (Streaming /\ rpc = "raised" /\ gpc \in {"error", "done"}) =>
          events = <<RunStarted(run_id), TextMessageStart(message_id),
                     RunError(run_id, outcome)>>
    /\ (Len(events) > 0 /\ Last(events).type = "RUN_ERROR") =>
          \A i \in 1..Len(events) :
              events[i].type \notin {"TEXT_MESSAGE_CONTENT", "TEXT_MESSAGE_END"}
    /\ rpc # "returned" =>
          \A i \in 1..Len(events) : events[i].type # "TEXT_MESSAGE_CONTENT"

C26_Witness ==
    /\ entry = "agui_stream_generator"
    /\ gpc = "error"
    /\ outcome.type = "EmptyResponseError"
    /\ Len(events) = 3
    /\ events[2].type = "TEXT_MESSAGE_START"
    /\ events[3].type = "RUN_ERROR"

\* the positions of the TEXT_MESSAGE_CONTENT events of the stream
ContentEvents == {i \in 1..Len(events) : events[i].type = "TEXT_MESSAGE_CONTENT"}

\* ceil(n / d) for positive d
CeilDiv(n, d) == (n + d - 1) \div d

\* C27: no delta is ever empty or longer than 50; once the message of a
\* report of n >= 1 characters is ended, exactly ceil(n / 50) content
\* events were emitted, at least one, each of exactly 50 characters but
\* the last, which has n - 50 * (ceil(n / 50) - 1) characters.
C27_ChunkCount ==
    /\ \A i \in ContentEvents : Len(events[i].delta) \in 1..chunk_size
    /\ (Streaming /\ rpc = "returned" /\ gpc \in {"msg_end", "finished", "done"}) =>
          LET n == Len(outcome.content)
              last == CHOOSE i \in ContentEvents : \A j \in ContentEvents : j <= i
          IN  /\ n >= 1
              /\ Cardinality(ContentEvents) = CeilDiv(n, chunk_size)
              /\ Cardinality(ContentEvents) >= 1
              /\ \A i \in ContentEvents \ {last} : Len(events[i].delta) = chunk_size
              /\ Len(events[last].delta) = n - chunk_size * (CeilDiv(n, chunk_size) - 1)

C27_Witness ==
    /\ gpc = "done"
    /\ rpc = "returned"
    /\ Len(outcome.content) = 2 * chunk_size + 1
    /\ Cardinality(ContentEvents) = 3
    /\ Len(events[5].delta) = 1

\* the availability precondition of the adapter behind a registered tool
AdapterAvailable(st, name) ==
    IF name \in {"tavily_search", "tavily_search_news"} THEN has_tavily(st)
    ELSE IF name \in {"serpapi_search", "serpapi_search_news"} THEN has_serpapi(st)
    ELSE TRUE

Bit(b) == IF b THEN 1 ELSE 0

\* the list part of C28: membership follows the adapters' precondition,
\* no tool occurs twice and the length is 1 + 2 has_tavily + 2 has_serpapi
RegistryMatchesAdapters ==
    LET tools == get_available_tools(settings)
    IN  /\ \A name \in TOOL_REGISTRY :
              (\E i \in 1..Len(tools) : tools[i] = name) <=> AdapterAvailable(settings, name)
        /\ \A i, j \in 1..Len(tools) : tools[i] = tools[j] => i = j
        /\ Len(tools) = 1 + 2 * Bit(has_tavily(settings)) + 2 * Bit(has_serpapi(settings))

\* C28: the list of get_available_tools holds a tool exactly when its
\* adapter's availability precondition holds, without duplicates and with
\* 1 + 2 has_tavily + 2 has_serpapi elements, and a tool taken from the
\* list never answers with its "key not configured" text.
C28_RegistryAgreesWithAdapters ==
    /\ RegistryMatchesAdapters
    /\ LET tools == get_available_tools(settings)
       IN  (/\ tool_call # NoCall
            /\ tool_output # NoText
            /\ \E i \in 1..Len(tools) : tools[i] = tool_call.name)
              => tool_output.kind # "not_configured"

\* C29: the effective max_iterations of every ResearchAgent lies between 1
\* and the largest value the settings accept (MaxIter here, le=100 in
\* config.py), also when the caller passes an override, so the step budget
\* handed to the oracle is positive and at most twice that value.
C29_BudgetInRange ==
    /\ agent.made =>
          /\ agent.max_iterations \in 1..MaxIter
          /\ recursion_limit(agent) \in 1..(2 * MaxIter)
    /\ rpc # "idle" => limit \in 1..(2 * MaxIter)

\* C30: a request of api.py handled while _agent is None (before startup
\* or after shutdown) is answered with 503 and starts no run; a 503 answer
\* never comes with a run of an agent; and a response of /research or
\* /research/async carries a report and no error when success is true, an
\* error and no report when success is false.
C30_UnavailableAndExclusive ==
    /\ [](entry \in ApiApp =>
            /\ lifespan = "up" <=> shared.made
            /\ response.status = 503 => (rpc = "idle" /\ invokes = 0)
            /\ (entry \in Api /\ response.status = 200) =>
                  /\ response.body.success =>
                        (response.body.report # <<>> /\ response.body.error = <<>>)
                  /\ ~response.body.success =>
                        (response.body.report = <<>> /\ response.body.error # <<>>))
    /\ [][(entry \in ApiApp /\ ~shared.made
              /\ (response'.status # response.status \/ rpc' # rpc)) =>
            (response'.status = 503 /\ rpc' = "idle" /\ invokes' = 0)]_vars

C30_Witness ==
    /\ entry = "api_health"
    /\ lifespan = "down"
    /\ response.status = 503

====
